---- MODULE Spec2Model ----
(***************************************************************************)
(* bina: reconciles the binaries declared in binaries.toml against the     *)
(* files of XDG_BIN_HOME (src/src/main.rs).  The model covers              *)
(* ensure_bin_directory, check_latest_release, binary_get, binary_check,   *)
(* binary_get_missing, the dispatch and exit status of main, and the       *)
(* version regex (\d+\.\d+\.\d+).                                          *)
(*                                                                         *)
(* Texts (subprocess output, release tags, versions) are sequences of      *)
(* one-character strings, so that the regex is computed, not assumed.      *)
(***************************************************************************)
EXTENDS Integers, Sequences, FiniteSets, TLC

\* ------------------------------------------------------------------ bounds
\* Number of successive invocations of the program that are explored.
MaxRuns == 2
\* Longest text fed to the version extractor in SpecExtract.
MaxLen == 6

\* ---------------------------------------------------------------- universe
\* Manifest names (keys of the data map) and file names that can appear in
\* XDG_BIN_HOME.  "ripgrep" is a name whose usual exe, "rg", differs from it.
Names == {"ripgrep", "fd"}
FileNames == {"ripgrep", "fd", "rg"}
\* A name given to `bina get` that the manifest may not contain.
GetArgs == Names \cup {"bat"}

Digits == {"0", "1", "2", "3", "4", "5", "6", "7", "8", "9"}
\* Characters of the texts enumerated in SpecExtract.
Alphabet == {"0", "1", "4", ".", "v"}

\* ----------------------------------------------------------- the extractor
\* Index just after the longest run of digits of t that starts at i
\* (i itself when t[i] is not a digit): the greedy \d+ of the regex.  A
\* shorter run is never followed by '.', so backtracking changes nothing.
\* A variant whose \d+ stops after one digit.
DigitsEnd_OneDigit(t, i) ==
    IF i <= Len(t) /\ t[i] \in Digits THEN i + 1 ELSE i

RECURSIVE DigitsEnd(_, _)
DigitsEnd(t, i) ==
    IF i <= Len(t) /\ t[i] \in Digits THEN DigitsEnd(t, i + 1) ELSE i

\* Index just after the match of \d+\.\d+\.\d+ that starts at i, 0 if none.
MatchAt(t, i) ==
    LET e1 == DigitsEnd(t, i) IN
    IF e1 = i \/ e1 > Len(t) \/ t[e1] # "." THEN 0
    ELSE LET e2 == DigitsEnd(t, e1 + 1) IN
         IF e2 = e1 + 1 \/ e2 > Len(t) \/ t[e2] # "." THEN 0
         ELSE LET e3 == DigitsEnd(t, e2 + 1) IN
              IF e3 = e2 + 1 THEN 0 ELSE e3

\* re.captures(text): the leftmost match, as <<start, end>>, or << >>.
RECURSIVE Captures(_, _)
Captures(t, i) ==
    IF i > Len(t) THEN << >>
    ELSE IF MatchAt(t, i) # 0 THEN <<i, MatchAt(t, i)>>
    ELSE Captures(t, i + 1)

Sentinel == <<"-">>

\* re.captures(..).and_then(|cap| cap.get(1)..).unwrap_or("-")
ExtractVersion(t) ==
    LET cap == Captures(t, 1) IN
    IF cap = << >> THEN Sentinel ELSE SubSeq(t, cap[1], cap[2] - 1)

\* ------------------------------------------------------------- environment
\* stdout of a spawned executable (its exit status is not looked at).
LocalTexts == { << >>,
                <<"f", "d", " ", "1", "0", ".", "2", ".", "0", "\n">> }
\* What Command::output() yields: a spawn error, or the captured stdout.
LocalOutcomes == {[spawned |-> FALSE]}
                 \cup {[spawned |-> TRUE, stdout |-> t] : t \in LocalTexts}

\* tag_name values of a release payload.
Tags == { <<"v", "1", ".", "4", ".", "0">>,
          <<"n", "i", "g", "h", "t", "l", "y">> }
\* What the release API exchange yields, step by step.
Responses == {[sent |-> FALSE],
              [sent |-> TRUE, success |-> FALSE],
              [sent |-> TRUE, success |-> TRUE, json |-> "invalid"],
              [sent |-> TRUE, success |-> TRUE, json |-> "no tag_name"]}
             \cup {[sent |-> TRUE, success |-> TRUE, json |-> "value",
                    tag_name |-> t] : t \in Tags}

\* States of XDG_BIN_HOME: the variable is unset (or empty); the path is
\* missing and create_dir_all fails; missing and creatable; an existing
\* directory; an existing path that read_dir cannot list.
EnvStates == {"unset", "uncreatable", "creatable", "exists", "unreadable"}

\* The [repo, exe, version_arg] array of a manifest entry (1-based here).
REPO == 1
EXE == 2
VERSION_ARG == 3
BinData(exe) == <<"owner/project", exe, "--version">>

\* get_data(): every map from a set of names to entry arrays.
Manifests ==
    UNION {[S -> {BinData(x) : x \in FileNames}] : S \in SUBSET Names}

\* --------------------------------------------------------------- the state
VARIABLES
    data,          \* the manifest map, name -> [repo, exe, version_arg]
    env,           \* state of XDG_BIN_HOME (EnvStates)
    files,         \* file names in the XDG_BIN_HOME directory
    pc,            \* "idle", "check", "missing", "exited"
    command,       \* the subcommand of the current invocation
    check_latest,  \* the --latest flag of check
    binaries,      \* the directory listing taken by the running function
    pending,       \* keys of data the loop of binary_check has not visited
    results,       \* the results vector binary_check is building
    not_found,     \* the not_found vector of binary_get_missing
    nf_pos,        \* position of its install loop in not_found
    returned,      \* how the called function ended ("none" while running)
    report,        \* the vector binary_check returned to main
    exit_code,     \* exit status of the process (-1 while running)
    installs,      \* installer invocations of this run, in order
    local_probes,  \* name -> outcome of the executables spawned in this run
    lookups,       \* name -> outcome of the remote lookups of this run
    prev,          \* how the previous invocation ended
    runs,          \* invocations started so far
    text,          \* SpecExtract: the text given to the extractor
    version,       \* SpecExtract: what was extracted from text
    again,         \* SpecExtract: what was extracted from version
    xpc            \* SpecExtract: position

vars == <<data, env, files, pc, command, check_latest, binaries, pending,
          results, not_found, nf_pos, returned, report, exit_code, installs,
          local_probes, lookups, prev, runs, text, version, again, xpc>>

xvars == <<text, version, again, xpc>>

Empty == [n \in {} |-> n]

Insert(m, k, v) == [x \in DOMAIN m \cup {k} |-> IF x = k THEN v ELSE m[x]]

\* All orders in which a set of keys can come out of a HashMap.
RECURSIVE Orders(_)
Orders(S) ==
    IF S = {} THEN { << >> }
    ELSE UNION {{<<x>> \o o : o \in Orders(S \ {x})} : x \in S}

\* ---------------------------------------------------- ensure_bin_directory
\* Result of ensure_bin_directory in environment e.
EnsureBinDirectory(e) == e \notin {"unset", "uncreatable"}

\* The environment it leaves: a missing, creatable directory now exists.
AfterEnsure(e) == IF e = "creatable" THEN "exists" ELSE e

\* fs::read_dir(..).expect(..): whether the listing can be taken.
ReadDirOK(e) == e # "unreadable"

\* ---------------------------------------------------- check_latest_release
ErrorText == <<"E", "r", "r", "o", "r">>

\* A variant that answers a placeholder version when the lookup fails.
CheckLatestRelease_Placeholder(resp) ==
    IF resp.sent /\ resp.success /\ resp.json = "value"
    THEN resp.tag_name
    ELSE <<"0", ".", "0", ".", "0">>

CheckLatestRelease(resp) ==
    IF resp.sent
    THEN IF resp.success
         THEN IF resp.json = "value" THEN resp.tag_name ELSE ErrorText
         ELSE ErrorText
    ELSE ErrorText

\* Whether the lookup was unavailable (anything but a payload with a tag).
Unavailable(resp) == ~(resp.sent /\ resp.success /\ resp.json = "value")

\* ------------------------------------------------------------------- main
\* Exit status main produces for the way the called function ended.
ExitCode(ret) ==
    CASE ret \in {"panic: Failed to execute binary",
                  "panic: Failed to read XDG_BIN_HOME"} -> 101
      [] ret = "Err" -> 1
      [] OTHER -> 0

\* How the invocation that is ending will be remembered by the next one.
Summary ==
    IF pc = "idle" THEN "none"
    ELSE IF command = "get-missing" /\ EnsureBinDirectory(env)
            /\ returned \in {"Ok(empty)", "Ok(All binaries are already present.)"}
         THEN "fetched all missing"
         ELSE "other"

\* A new invocation starts: Cli::parse and get_data, fresh locals.
Start(cmd, latest) ==
    /\ pc \in {"idle", "exited"}
    /\ runs < MaxRuns
    /\ runs' = runs + 1
    /\ prev' = Summary
    /\ command' = cmd
    /\ check_latest' = latest
    /\ UNCHANGED <<data, xvars>>

Init ==
    /\ data \in Manifests
    /\ env \in EnvStates
    /\ files \in SUBSET FileNames
    /\ (env # "exists" => files = {})
    /\ pc = "idle"
    /\ command = "none"
    /\ check_latest = FALSE
    /\ binaries = {}
    /\ pending = {}
    /\ results = << >>
    /\ not_found = << >>
    /\ nf_pos = 1
    /\ returned = "none"
    /\ report = << >>
    /\ exit_code = -1
    /\ installs = << >>
    /\ local_probes = Empty
    /\ lookups = Empty
    /\ prev = "none"
    /\ runs = 0
    /\ text = << >>
    /\ version = << >>
    /\ again = << >>
    /\ xpc = "off"

\* Locals of an invocation that has just started.
FreshLocals ==
    /\ results' = << >>
    /\ nf_pos' = 1
    /\ report' = << >>
    /\ local_probes' = Empty
    /\ lookups' = Empty

\* The called function ends with ret and main turns it into the exit status.
Finish(ret) ==
    /\ returned' = ret
    /\ exit_code' = ExitCode(ret)
    /\ pc' = "exited"

\* ------------------------------------------------------------ binary_check
\* binaries.contains(&bin_name.to_string()): the test that decides whether
\* an entry counts as installed.
IsInstalled(bin_name, bin_data, listing) == bin_name \in listing

\* The status record of one entry that is in the listing.
FoundRecord(bin_name, stdout, latest, resp) ==
    LET r == [Binary |-> bin_name, Status |-> "Found",
              Version |-> ExtractVersion(stdout)]
    IN IF latest
       THEN Insert(r, "Latest", ExtractVersion(CheckLatestRelease(resp)))
       ELSE r

\* The status record of one entry that is not in the listing.
NotFoundRecord(bin_name, latest, resp) ==
    LET r == [Binary |-> bin_name, Status |-> "Not Found",
              Version |-> Sentinel]
    IN IF latest
       THEN Insert(r, "Latest", ExtractVersion(CheckLatestRelease(resp)))
       ELSE r

\* `bina check [--latest]`: binary_check up to the start of its loop.
BinaryCheckStart ==
    \E latest \in BOOLEAN :
        /\ Start("check", latest)
        /\ FreshLocals
        /\ installs' = << >>
        /\ not_found' = << >>
        /\ UNCHANGED files
        /\ IF ~EnsureBinDirectory(env)
           THEN /\ Finish("Vec")
                /\ pending' = {}
                /\ UNCHANGED <<env, binaries>>
           ELSE IF ~ReadDirOK(env)
           THEN /\ Finish("panic: Failed to read XDG_BIN_HOME")
                /\ pending' = {}
                /\ UNCHANGED <<env, binaries>>
           ELSE /\ env' = AfterEnsure(env)
                /\ binaries' = files
                /\ pending' = DOMAIN data
                /\ returned' = "none"
                /\ exit_code' = -1
                /\ pc' = "check"

\* One iteration of the loop over data: probe an entry, push its record.
BinaryCheckStep ==
    /\ pc = "check"
    /\ \E bin_name \in pending, out \in LocalOutcomes, resp \in Responses :
        LET bin_data == data[bin_name] IN
        IF IsInstalled(bin_name, bin_data, binaries)
        THEN IF ~out.spawned
             THEN /\ Finish("panic: Failed to execute binary")
                  /\ local_probes' = Insert(local_probes, bin_name, "spawn error")
                  /\ UNCHANGED <<pending, results, lookups>>
             ELSE /\ results' = Append(results,
                         FoundRecord(bin_name, out.stdout, check_latest, resp))
                  /\ local_probes' = Insert(local_probes, bin_name,
                         IF ExtractVersion(out.stdout) = Sentinel
                         THEN "no version" ELSE "version")
                  /\ lookups' = IF check_latest
                                THEN Insert(lookups, bin_name,
                                       IF Unavailable(resp) THEN "unavailable"
                                                            ELSE "found")
                                ELSE lookups
                  /\ pending' = pending \ {bin_name}
                  /\ UNCHANGED <<returned, exit_code, pc>>
        ELSE /\ results' = Append(results,
                    NotFoundRecord(bin_name, check_latest, resp))
             /\ lookups' = IF check_latest
                           THEN Insert(lookups, bin_name,
                                  IF Unavailable(resp) THEN "unavailable"
                                                       ELSE "found")
                           ELSE lookups
             /\ pending' = pending \ {bin_name}
             /\ UNCHANGED <<local_probes, returned, exit_code, pc>>
    /\ UNCHANGED <<data, env, files, command, check_latest, binaries,
                   not_found, nf_pos, report, installs, prev, runs, xvars>>

\* The loop is over: binary_check returns results, main prints the table.
BinaryCheckReturn ==
    /\ pc = "check"
    /\ pending = {}
    /\ report' = results
    /\ Finish("Vec")
    /\ UNCHANGED <<data, env, files, command, check_latest, binaries, pending,
                   results, not_found, nf_pos, installs, local_probes,
                   lookups, prev, runs, xvars>>

\* -------------------------------------------------------------- binary_get
\* binary_get(bin_name, data) in the current state, when the installer (ubi
\* build and install_binary) would end as ubi_ok: its result, whether the
\* installer is invoked, and the environment and files it leaves.
BinaryGet(bin_name, ubi_ok) ==
    IF ~EnsureBinDirectory(env)
    THEN [ok |-> FALSE, invoked |-> FALSE, env |-> env, files |-> files]
    ELSE IF bin_name \notin DOMAIN data
    THEN [ok |-> FALSE, invoked |-> FALSE, env |-> AfterEnsure(env),
          files |-> files]
    ELSE [ok |-> ubi_ok, invoked |-> TRUE, env |-> AfterEnsure(env),
          files |-> IF ubi_ok THEN files \cup {data[bin_name][EXE]}
                             ELSE files]

\* `bina get <bin_name>`.
Get ==
    \E bin_name \in GetArgs, ubi_ok \in BOOLEAN :
        LET r == BinaryGet(bin_name, ubi_ok) IN
        /\ Start("get", FALSE)
        /\ FreshLocals
        /\ env' = r.env
        /\ files' = r.files
        /\ installs' = IF r.invoked
                       THEN <<[name |-> bin_name, ok |-> ubi_ok]>>
                       ELSE << >>
        /\ Finish(IF r.ok THEN "Ok" ELSE "Err")
        /\ pending' = {}
        /\ not_found' = << >>
        /\ UNCHANGED binaries

\* ------------------------------------------------------ binary_get_missing
\* The filter of not_found: !binaries.contains(bin_name).
IsMissing(bin_name, bin_data, listing) == bin_name \notin listing

\* A variant that goes on to the next install whatever the result.
GoesOn_BestEffort(ok) == TRUE

\* The `?` after binary_get(..).await: the loop goes on only after Ok.
GoesOn(ok) == ok

\* `bina get-missing`: binary_get_missing up to the start of its loop.
GetMissingStart ==
    /\ Start("get-missing", FALSE)
    /\ FreshLocals
    /\ installs' = << >>
    /\ pending' = {}
    /\ UNCHANGED files
    /\ IF ~EnsureBinDirectory(env)
       THEN /\ Finish("Ok(empty)")
            /\ not_found' = << >>
            /\ UNCHANGED <<env, binaries>>
       ELSE IF ~ReadDirOK(env)
       THEN /\ Finish("panic: Failed to read XDG_BIN_HOME")
            /\ not_found' = << >>
            /\ UNCHANGED <<env, binaries>>
       ELSE /\ env' = AfterEnsure(env)
            /\ binaries' = files
            /\ \E nf \in Orders({k \in DOMAIN data :
                                   IsMissing(k, data[k], files)}) :
                 /\ not_found' = nf
                 /\ IF nf = << >>
                    THEN Finish("Ok(All binaries are already present.)")
                    ELSE /\ returned' = "none"
                         /\ exit_code' = -1
                         /\ pc' = "missing"

\* One iteration of the install loop: binary_get for the next missing name.
GetMissingStep ==
    /\ pc = "missing"
    /\ nf_pos <= Len(not_found)
    /\ \E ubi_ok \in BOOLEAN :
        LET bin_name == not_found[nf_pos]
            r == BinaryGet(bin_name, ubi_ok)
        IN /\ env' = r.env
           /\ files' = r.files
           /\ installs' = IF r.invoked
                          THEN Append(installs, [name |-> bin_name, ok |-> ubi_ok])
                          ELSE installs
           /\ nf_pos' = nf_pos + 1
           /\ IF GoesOn(r.ok)
              THEN UNCHANGED <<returned, exit_code, pc>>
              ELSE Finish("Err")
    /\ UNCHANGED <<data, command, check_latest, binaries, pending, results,
                   not_found, report, local_probes, lookups, prev, runs,
                   xvars>>

\* The install loop is over: Ok("").
GetMissingReturn ==
    /\ pc = "missing"
    /\ nf_pos > Len(not_found)
    /\ Finish("Ok(empty)")
    /\ UNCHANGED <<data, env, files, command, check_latest, binaries, pending,
                   results, not_found, nf_pos, report, installs, local_probes,
                   lookups, prev, runs, xvars>>

Next ==
    \/ BinaryCheckStart
    \/ BinaryCheckStep
    \/ BinaryCheckReturn
    \/ Get
    \/ GetMissingStart
    \/ GetMissingStep
    \/ GetMissingReturn

Spec == Init /\ [][Next]_vars

\* ----------------------------------------------- the extractor on its own
\* Every text over Alphabet of at most n characters.
Texts(n) == UNION {[1..k -> Alphabet] : k \in 0..n}

InitExtract ==
    /\ data = Empty
    /\ env = "unset"
    /\ files = {}
    /\ pc = "idle"
    /\ command = "none"
    /\ check_latest = FALSE
    /\ binaries = {}
    /\ pending = {}
    /\ results = << >>
    /\ not_found = << >>
    /\ nf_pos = 1
    /\ returned = "none"
    /\ report = << >>
    /\ exit_code = -1
    /\ installs = << >>
    /\ local_probes = Empty
    /\ lookups = Empty
    /\ prev = "none"
    /\ runs = 0
    /\ text \in Texts(MaxLen)
    /\ version = << >>
    /\ again = << >>
    /\ xpc = "text"

mainvars == <<data, env, files, pc, command, check_latest, binaries, pending,
              results, not_found, nf_pos, returned, report, exit_code,
              installs, local_probes, lookups, prev, runs>>

\* The extractor is applied to the text.
Extract ==
    /\ xpc = "text"
    /\ version' = ExtractVersion(text)
    /\ xpc' = "version"
    /\ UNCHANGED <<mainvars, text, again>>

\* The extractor is applied to what it returned.
ExtractAgain ==
    /\ xpc = "version"
    /\ again' = ExtractVersion(version)
    /\ xpc' = "again"
    /\ UNCHANGED <<mainvars, text, version>>

NextExtract == Extract \/ ExtractAgain

SpecExtract == InitExtract /\ [][NextExtract]_vars

\* ------------------------------------------------------------------ claims
Names_of(rs) == {rs[i].Binary : i \in 1..Len(rs)}

\* The listing of the running function was taken (the directory could be
\* ensured and read).
Listed == EnsureBinDirectory(env) /\ ReadDirOK(env)

\* C1: binary_check returns exactly one status record per manifest entry,
\* with distinct names that are the manifest's names, whatever the
\* environment does.
C1_OneRecordPerEntry ==
    (command = "check" /\ pc = "exited" /\ ReadDirOK(env)) =>
        /\ returned = "Vec"
        /\ Len(report) = Cardinality(DOMAIN data)
        /\ Names_of(report) = DOMAIN data

\* C2: an entry is treated as absent exactly when its exe is not among the
\* listed file names: binary_check reports "Not Found", and
\* binary_get_missing selects the entry, if and only if exe is missing.
C2_AbsentIffExeMissing ==
    /\ command = "check" =>
         \A i \in 1..Len(results) :
             (results[i].Status = "Not Found")
                 <=> (data[results[i].Binary][EXE] \notin binaries)
    /\ (command = "get-missing" /\ Listed) =>
         \A k \in DOMAIN data :
             (\E i \in 1..Len(not_found) : not_found[i] = k)
                 <=> (data[k][EXE] \notin binaries)

\* C3: a failing local version probe never aborts binary_check: the entry
\* gets a record with Status "Found" and Version "-", and every other entry
\* is still reported.
C3_ProbeFailureNeverAborts ==
    /\ returned # "panic: Failed to execute binary"
    /\ \A n \in DOMAIN local_probes :
         local_probes[n] # "version" =>
             \E i \in 1..Len(results) :
                 /\ results[i].Binary = n
                 /\ results[i].Status = "Found"
                 /\ results[i].Version = Sentinel
    /\ (command = "check" /\ pc = "exited"
          /\ \E n \in DOMAIN local_probes : local_probes[n] # "version") =>
             Names_of(report) = DOMAIN data

\* C4: for each command, an unset or uncreatable target directory ends the
\* invocation with a non-zero exit before any local probe, remote lookup or
\* installer call; the exit status is zero only without such an error.
C4_NoDirectoryIsFatal ==
    (pc = "exited" /\ ~EnsureBinDirectory(env)) =>
        /\ exit_code # 0
        /\ local_probes = Empty
        /\ lookups = Empty
        /\ installs = << >>

\* C5: a run of binary_get_missing in which every install succeeds invokes
\* the installer exactly once for each entry absent from the listing and
\* never for a present one; with no absent entry there are no invocations
\* and the result is "All binaries are already present.".
C5_InstallsExactlyTheAbsent ==
    (command = "get-missing" /\ pc = "exited" /\ Listed
       /\ returned \in {"Ok(empty)", "Ok(All binaries are already present.)"}) =>
        LET absent == {k \in DOMAIN data : data[k][EXE] \notin binaries} IN
        /\ \A k \in absent :
             Cardinality({i \in 1..Len(installs) : installs[i].name = k}) = 1
        /\ \A i \in 1..Len(installs) : installs[i].name \in absent
        /\ absent = {} =>
             /\ installs = << >>
             /\ returned = "Ok(All binaries are already present.)"

\* C6: the record of an entry that is absent from the installed set has
\* Status "Not Found" and Version "-", with or without --latest.
C6_AbsentIsNotFound ==
    command = "check" =>
        \A i \in 1..Len(results) :
            data[results[i].Binary][EXE] \notin binaries =>
                /\ results[i].Status = "Not Found"
                /\ results[i].Version = Sentinel

\* C7: a record has a Latest field if and only if check_latest is true, and
\* no lookup is made otherwise; an unavailable lookup gives Latest "-" and
\* the run goes on to the remaining entries.
C7_LatestOnlyWhenAsked ==
    command = "check" =>
        /\ \A i \in 1..Len(results) :
             ("Latest" \in DOMAIN results[i]) <=> check_latest
        /\ \A i \in 1..Len(report) :
             ("Latest" \in DOMAIN report[i]) <=> check_latest
        /\ ~check_latest => lookups = Empty
        /\ \A n \in DOMAIN lookups :
             lookups[n] = "unavailable" =>
                 \E i \in 1..Len(results) :
                     /\ results[i].Binary = n
                     /\ results[i].Latest = Sentinel
        /\ (pc = "exited"
              /\ \E n \in DOMAIN lookups : lookups[n] = "unavailable") =>
                 \/ returned = "Vec" /\ Names_of(report) = DOMAIN data
                 \/ /\ returned = "panic: Failed to execute binary"
                    /\ \E n \in DOMAIN local_probes :
                           local_probes[n] = "spawn error"

\* A finished check with --latest of two entries, one lookup unavailable and
\* one answered.
C7_Witness ==
    /\ command = "check" /\ pc = "exited" /\ check_latest
    /\ returned = "Vec" /\ Len(report) = 2
    /\ \E n, m \in DOMAIN lookups :
         /\ lookups[n] = "unavailable" /\ lookups[m] = "found"
         /\ \E i, j \in 1..Len(report) :
              /\ report[i].Binary = n /\ report[i].Latest = Sentinel
              /\ report[j].Binary = m /\ report[j].Latest # Sentinel

\* Whether t is digits '.' digits '.' digits.
IsVersionForm(t) ==
    \E i, j \in 1..Len(t) :
        /\ 1 < i /\ i + 1 < j /\ j < Len(t)
        /\ t[i] = "." /\ t[j] = "."
        /\ \A k \in (1..Len(t)) \ {i, j} : t[k] \in Digits

\* C8: version extraction is idempotent: a text of the form
\* digits.digits.digits is returned as it is, so extracting from an
\* extracted version yields it again; "v1.4.0" gives "1.4.0".
C8_ExtractIdempotent ==
    /\ (xpc \in {"version", "again"} /\ IsVersionForm(text)) => version = text
    /\ (xpc = "again" /\ version # Sentinel) =>
          IsVersionForm(version) /\ again = version
    /\ (xpc \in {"version", "again"}
          /\ text = <<"v", "1", ".", "4", ".", "0">>) =>
             version = <<"1", ".", "4", ".", "0">>

\* A version was extracted from a prefixed tag and extracted again.
C8_Witness ==
    /\ xpc = "again"
    /\ text = <<"v", "1", ".", "4", ".", "0">>
    /\ version = <<"1", ".", "4", ".", "0">>
    /\ IsVersionForm(version)
    /\ again = version

\* C9: binary_get_missing installs the absent entries one at a time and
\* stops at the first failure: the error is returned at once, no later
\* entry is attempted, and earlier successful installs stay in place.
C9_StopsAtFirstFailure ==
    command = "get-missing" =>
        /\ Len(installs) <= Len(not_found)
        /\ \A i \in 1..Len(installs) :
             /\ installs[i].name = not_found[i]
             /\ installs[i].ok => data[installs[i].name][EXE] \in files
             /\ ~installs[i].ok =>
                  /\ i = Len(installs)
                  /\ pc = "exited"
                  /\ returned = "Err"
                  /\ exit_code = 1

\* The first of two missing entries was installed, the second failed.
C9_Witness ==
    /\ command = "get-missing" /\ pc = "exited" /\ returned = "Err"
    /\ Len(not_found) = 2 /\ Len(installs) = 2
    /\ installs[1].ok /\ ~installs[2].ok
    /\ data[installs[1].name][EXE] \in files

\* C10: after a run of binary_get_missing whose installs all succeeded, a
\* following binary_get_missing finds nothing absent and invokes no
\* installer, and a following binary_check reports every entry "Found".
C10_Converges ==
    prev = "fetched all missing" =>
        /\ command = "get-missing" => (installs = << >> /\ not_found = << >>)
        /\ command = "check" =>
             \A i \in 1..Len(results) : results[i].Status = "Found"

====
